---- MODULE Spec2Model ----
(***************************************************************************)
(* Reward accounting and balance settlement of the MineBench back end.     *)
(*                                                                         *)
(* The store (Prisma) is modelled as rows held in variables; every store   *)
(* call of a handler is one atomic step, and a handler is suspended        *)
(* between two of its store calls (each is an await), so handlers          *)
(* interleave at exactly the places the code awaits.                       *)
(*                                                                         *)
(* Amounts are fixed-point integers in micro-units (1 coin = 1 token =     *)
(* 1000000 units), so (hashRate * duration) / 1000000 coins is             *)
(* hashRate * duration units.  Times are milliseconds.                     *)
(***************************************************************************)
EXTENDS Integers, Sequences, FiniteSets, TLC

\* ------------------------------------------------------------------ bounds
\* Each specification issues at most this many client operations (requests,
\* messages, timer firings).
SeqMaxOps == 4
UpdMaxOps == 4
MiningMaxOps == 5
WalletMaxOps == 4
LedgerMaxOps == 5

\* Inputs of the requests (req.body / message payload values).
Users == {"u1", "u2"}
HashRates == {0, 250000, 500000}
Durations == {10, 20}
TickSteps == {1000}
\* Values of MINING_REWARD_RATE: '0.5', '1.0', '2.0'.
Rates == {500, 1000, 2000}

\* ------------------------------------------------------------------ values
NULL == 0 - 1

Max(a, b) == IF a >= b THEN a ELSE b

\* x * rateMilli / 1000 without leaving 32 bits.
MulMilli(x, rateMilli) ==
  (x \div 1000) * rateMilli + ((x % 1000) * rateMilli) \div 1000

MinMiningReward == 1000
BatchSize == 100
MinBenchmarkReward == 100000

\* The defaults of the configuration: '1.0', '0.5' and '100.0'.
DefaultMiningRate == 1000
DefaultBenchmarkRate == 500
DefaultMinimumWithdrawal == 100000000

\* mining.ts calculateMiningReward: Math.max(hashRate * duration / 1000000, 0.001)
NoMinimumReward(hashRate, duration) == hashRate * duration
calculateMiningReward(hashRate, duration) ==
  LET baseReward == hashRate * duration
  IN  Max(baseReward, MinMiningReward)

\* rewardService calculateMiningTokens: the same formula, no reward rate.
calculateMiningTokens(hashRate, duration) ==
  LET baseReward == hashRate * duration
  IN  Max(baseReward, MinMiningReward)

\* coinsEarned * parseFloat(process.env.MINING_REWARD_RATE || '1.0')
UnratedTokens(coinsEarned, rateMilli) == coinsEarned
MiningTokens(coinsEarned, rateMilli) == MulMilli(coinsEarned, rateMilli)

\* record.duration || 0
DurationOrZero(duration) == IF duration = NULL THEN 0 ELSE duration

RemoveAt(s, i) == [j \in 1..(Len(s) - 1) |-> IF j < i THEN s[j] ELSE s[j + 1]]

Take(s, n) == IF Len(s) <= n THEN s ELSE SubSeq(s, 1, n)

\* ------------------------------------------------------------------ state
VARIABLES
  env,        \* process.env: the reward rates (thousandths), the minimum withdrawal
  now,        \* the clock, ms
  users,      \* user rows
  records,    \* mining_records rows, by creation order; sessionId = index
  starts,     \* POST /start handlers suspended at the store call
  updates,    \* PUT /update handlers suspended at a store call
  stops,      \* POST /stop handlers suspended at a store call
  sweeps,     \* distributeRewards runs suspended at a store call
  benchmarks, \* benchmark_results rows
  txs,        \* wallet_transactions rows, by creation order; id = index
  submits,    \* POST /submit handlers suspended at a store call
  withdraws,  \* POST /withdraw handlers suspended at a store call
  pws,        \* processWithdrawal calls suspended at a store call or the timer
  issued,     \* how many client operations were issued (bounds the model)
  hist,       \* history, per session: what the update route wrote and credited
  ledger,     \* history, per user: the increments and decrements sent to the store
  replies,    \* history: the answers of POST /withdraw, by status
  txHist,     \* history, per transaction: settlement attempts and debits
  tokenPools, \* token_pool rows, by creation order
  poolRuns,   \* updateTokenPoolStats runs suspended at a store call
  calc        \* the last evaluation of a reward function: arguments and result

miningVars == <<records, starts, updates, stops, sweeps, hist>>
walletVars == <<benchmarks, txs, submits, withdraws, pws, replies, txHist>>
poolVars == <<tokenPools, poolRuns>>
vars == <<env, now, users, issued, ledger, miningVars, walletVars, poolVars, calc>>

NewUser == [virtualBalance |-> 0, totalMined |-> 0, totalHashRate |-> 0, lastActive |-> 0]

\* coins/tokens: sums the update route added to the owner; maxCoins/maxTokens:
\* largest cumulative values it wrote to the record; n: its user writes; idle:
\* those of them that carried no increment; swept: the increments the sweep
\* sent for the session.
NoHist ==
  [coins |-> 0, tokens |-> 0, maxCoins |-> 0, maxTokens |-> 0, n |-> 0, idle |-> 0, swept |-> 0]

InitEnv(miningRates, benchmarkRates) ==
  /\ env \in [MINING_REWARD_RATE : miningRates,
              BENCHMARK_REWARD_RATE : benchmarkRates,
              MINIMUM_WITHDRAWAL : {DefaultMinimumWithdrawal}]
  /\ now = 0
  /\ users = [u \in Users |-> NewUser]
  /\ records = <<>>
  /\ starts = <<>>
  /\ updates = <<>>
  /\ stops = <<>>
  /\ sweeps = <<>>
  /\ benchmarks = <<>>
  /\ txs = <<>>
  /\ submits = <<>>
  /\ withdraws = <<>>
  /\ pws = <<>>
  /\ issued = 0
  /\ hist = <<>>
  /\ ledger = [u \in Users |-> [credits |-> 0, debits |-> 0]]
  /\ replies = [ok |-> 0, belowMinimum |-> 0, insufficient |-> 0, invalidAddress |-> 0,
                notFound |-> 0]
  /\ txHist = <<>>
  /\ tokenPools = <<>>
  /\ poolRuns = <<>>
  /\ calc = [fn |-> "none"]

InitWith(rates) == InitEnv(rates, {DefaultBenchmarkRate})

\* The store after the users of the model have registered (POST /auth creates
\* the row with the schema defaults) and before any other request; the
\* environment holds the default rates.
Init == InitWith({DefaultMiningRate})

\* ------------------------------------------------------------------ clock
Tick ==
  /\ \E d \in TickSteps : now' = now + d
  /\ issued' = issued + 1
  /\ UNCHANGED <<poolVars, calc, env, users, ledger, miningVars, walletVars>>

\* ------------------------------------------------------------------ POST /start
\* Lines 10-18: the handler runs up to the await of line 14; the data of
\* miningRecord.create holds startTime: new Date(), the clock of this step.
Start(userId) ==
  /\ issued' = issued + 1
  /\ starts' = Append(starts, [userId |-> userId, startTime |-> now])
  /\ UNCHANGED <<walletVars, ledger, poolVars, calc, env, now, users, records, updates, stops,
                 sweeps, hist>>

\* Lines 14-26: the store applies miningRecord.create, with hashRate 0 and the
\* schema defaults, and the date the handler passed; then the response.
StartCreate(j) ==
  /\ j \in 1..Len(starts)
  /\ records' = Append(records,
       [userId |-> starts[j].userId, startTime |-> starts[j].startTime, endTime |-> NULL,
        hashRate |-> 0, duration |-> NULL, coinsEarned |-> 0, tokensEarned |-> 0])
  /\ hist' = Append(hist, NoHist)
  /\ starts' = RemoveAt(starts, j)
  /\ UNCHANGED <<walletVars, ledger, poolVars, calc, env, now, users, updates, stops, sweeps,
                 issued>>

\* ------------------------------------------------------------------ websocket mining_stats
\* handleMiningStats: miningRecord.updateMany sets hashRate of the session's rows.
MiningStats(sessionId, hashRate) ==
  /\ issued' = issued + 1
  /\ records' = [i \in 1..Len(records) |->
       IF i = sessionId THEN [records[i] EXCEPT !.hashRate = hashRate] ELSE records[i]]
  /\ UNCHANGED <<walletVars, ledger, poolVars, calc, env, now, users, updates, stops, starts, sweeps, hist>>

\* A call of calculateMiningReward and what it returns.
CalcMiningReward(hashRate, duration) ==
  /\ calc' = [fn |-> "calculateMiningReward", hashRate |-> hashRate, duration |-> duration,
              result |-> calculateMiningReward(hashRate, duration)]
  /\ UNCHANGED <<miningVars, walletVars, poolVars, ledger, env, now, users, issued>>

\* ------------------------------------------------------------------ PUT /update/:sessionId
\* Lines 55-56: the delta against the cumulative value read from the record.
FullReward(cumulative, previous) == cumulative
IncrementalReward(cumulative, previous) == cumulative - previous

\* Lines 47-56, from the row read at line 39 (userId and endTime are the
\* row's). date is the new Date() of lines 76 and 85, not yet evaluated.
UpdateFrame(sessionId, hashRate, duration, miningRecord) ==
  LET coinsEarned == calculateMiningReward(hashRate, duration)
      tokensEarned == MiningTokens(coinsEarned, env.MINING_REWARD_RATE)
      previousCoinsEarned == miningRecord.coinsEarned
      previousTokensEarned == miningRecord.tokensEarned
  IN  [sessionId |-> sessionId, hashRate |-> hashRate, duration |-> duration,
       userId |-> miningRecord.userId, endTime |-> miningRecord.endTime,
       coinsEarned |-> coinsEarned, tokensEarned |-> tokensEarned,
       newCoinsEarned |-> IncrementalReward(coinsEarned, previousCoinsEarned),
       newTokensEarned |-> IncrementalReward(tokensEarned, previousTokensEarned),
       date |-> NULL, pc |-> "writeRecord"]

\* Line 39: miningRecord.findUnique; 404 and no further step when there is no
\* such session.
UpdateFind(sessionId, hashRate, duration) ==
  /\ issued' = issued + 1
  /\ updates' = IF sessionId \in 1..Len(records)
                THEN Append(updates, UpdateFrame(sessionId, hashRate, duration, records[sessionId]))
                ELSE updates
  /\ UNCHANGED <<walletVars, ledger, poolVars, calc, env, now, users, records, stops, starts, sweeps, hist>>

\* Lines 58-66: miningRecord.update writes the cumulative values as computed.
\* When it is answered the handler goes on to line 69 and issues user.update,
\* whose data holds new Date() (lines 76, 85): the date is the clock of this
\* step, not of the step in which the store applies the user write.
UpdateWriteRecord(i) ==
  /\ i \in 1..Len(updates)
  /\ updates[i].pc = "writeRecord"
  /\ LET f == updates[i]
     IN  /\ records' = [records EXCEPT ![f.sessionId] =
               [@ EXCEPT !.hashRate = f.hashRate, !.duration = f.duration,
                         !.coinsEarned = f.coinsEarned,
                         !.tokensEarned = f.tokensEarned]]
         /\ hist' = [hist EXCEPT ![f.sessionId] =
               [@ EXCEPT !.maxCoins = Max(@, f.coinsEarned),
                         !.maxTokens = Max(@, f.tokensEarned)]]
  /\ updates' = [updates EXCEPT ![i].pc = "writeUser", ![i].date = now]
  /\ UNCHANGED <<walletVars, ledger, poolVars, calc, env, now, users, stops, starts, sweeps, issued>>

\* Line 69: the condition under which the deltas are added to the user row.
CreditsUser(newCoinsEarned, newTokensEarned) ==
  newCoinsEarned > 0 \/ newTokensEarned > 0

\* Lines 72-77: the row after user.update with the two increments.
CreditedUser(user, hashRate, newCoinsEarned, newTokensEarned, date) ==
  [user EXCEPT !.totalHashRate = hashRate,
               !.totalMined = @ + newCoinsEarned,
               !.virtualBalance = @ + newTokensEarned,
               !.lastActive = date]

\* Lines 83-86: the row after user.update without increments.
StaleRateUser(user, hashRate, date) == [user EXCEPT !.lastActive = date]
StaleDateUser(user, hashRate, date) == [user EXCEPT !.totalHashRate = hashRate]
RefreshedUser(user, hashRate, date) ==
  [user EXCEPT !.totalHashRate = hashRate, !.lastActive = date]

\* Lines 69-88: the store applies user.update, with the increments or without,
\* and the date the handler passed; then the response.
UpdateWriteUser(i) ==
  /\ i \in 1..Len(updates)
  /\ updates[i].pc = "writeUser"
  /\ LET f == updates[i]
     IN  IF CreditsUser(f.newCoinsEarned, f.newTokensEarned)
         THEN /\ users' = [users EXCEPT ![f.userId] =
                    CreditedUser(@, f.hashRate, f.newCoinsEarned, f.newTokensEarned, f.date)]
              /\ ledger' = [ledger EXCEPT ![f.userId].credits = @ + f.newTokensEarned]
              /\ hist' = [hist EXCEPT ![f.sessionId] =
                    [@ EXCEPT !.coins = @ + f.newCoinsEarned,
                              !.tokens = @ + f.newTokensEarned,
                              !.n = @ + 1]]
         ELSE /\ users' = [users EXCEPT ![f.userId] = RefreshedUser(@, f.hashRate, f.date)]
              /\ hist' = [hist EXCEPT ![f.sessionId] = [@ EXCEPT !.idle = @ + 1, !.n = @ + 1]]
              /\ UNCHANGED ledger
  /\ updates' = RemoveAt(updates, i)
  /\ UNCHANGED <<walletVars, poolVars, calc, env, now, records, stops, starts, sweeps, issued>>

\* ------------------------------------------------------------------ POST /stop/:sessionId
\* Lines 102-111: miningRecord.findUnique (404 and no further step when there
\* is no such session), then endTime = new Date() and the duration in whole
\* seconds since startTime; readEndTime is the endTime of the row as read.
StopFind(sessionId) ==
  /\ issued' = issued + 1
  /\ stops' = IF sessionId \in 1..Len(records)
              THEN Append(stops,
                     [sessionId |-> sessionId, endTime |-> now,
                      readEndTime |-> records[sessionId].endTime,
                      duration |-> (now - records[sessionId].startTime) \div 1000])
              ELSE stops
  /\ UNCHANGED <<walletVars, ledger, poolVars, calc, env, now, users, records, starts, updates,
                 sweeps, hist>>

\* Lines 113-121: miningRecord.update writes endTime and duration; the response.
StopWrite(j) ==
  /\ j \in 1..Len(stops)
  /\ records' = [records EXCEPT ![stops[j].sessionId] =
       [@ EXCEPT !.endTime = stops[j].endTime, !.duration = stops[j].duration]]
  /\ stops' = RemoveAt(stops, j)
  /\ UNCHANGED <<walletVars, ledger, poolVars, calc, env, now, users, starts, updates, sweeps,
                 issued, hist>>

\* ------------------------------------------------------------------ distributeRewards
\* Lines 33-39: the rows with tokensEarned = 0 and endTime set, in creation
\* order, as read by findMany.
EndedOnly(record) == record.endTime # NULL
Unsettled(record) == record.tokensEarned = 0 /\ record.endTime # NULL

RECURSIVE PendingFrom(_)
PendingFrom(id) ==
  IF id > Len(records) THEN <<>>
  ELSE (IF Unsettled(records[id])
        THEN <<[id |-> id, userId |-> records[id].userId,
                hashRate |-> records[id].hashRate, duration |-> records[id].duration]>>
        ELSE <<>>) \o PendingFrom(id + 1)

pendingMiningRecords == Take(PendingFrom(1), BatchSize)

\* The cron callback of every minute: findMany; a run that finds nothing ends.
SweepFind ==
  /\ issued' = issued + 1
  /\ sweeps' = IF pendingMiningRecords = <<>> THEN sweeps
               ELSE Append(sweeps, [pending |-> pendingMiningRecords, pc |-> "writeRecord"])
  /\ UNCHANGED <<walletVars, ledger, poolVars, calc, env, now, users, records, updates, stops, starts, hist>>

\* Line 42: the reward of the record as it was read.
SweepTokens(record) == calculateMiningTokens(record.hashRate, DurationOrZero(record.duration))

\* Lines 44-47: miningRecord.update of the head of the batch.
SweepWriteRecord(k) ==
  /\ k \in 1..Len(sweeps)
  /\ sweeps[k].pc = "writeRecord"
  /\ LET record == Head(sweeps[k].pending)
     IN  records' = [records EXCEPT ![record.id].tokensEarned = SweepTokens(record)]
  /\ sweeps' = [sweeps EXCEPT ![k].pc = "writeUser"]
  /\ UNCHANGED <<walletVars, ledger, poolVars, calc, env, now, users, updates, stops, starts, issued, hist>>

\* Lines 49-54: user.update increments the owner's balance; the loop goes on
\* with the next record, and the run ends after the last.
SweepWriteUser(k) ==
  /\ k \in 1..Len(sweeps)
  /\ sweeps[k].pc = "writeUser"
  /\ LET record == Head(sweeps[k].pending)
     IN  /\ users' = [users EXCEPT ![record.userId].virtualBalance = @ + SweepTokens(record)]
         /\ ledger' = [ledger EXCEPT ![record.userId].credits = @ + SweepTokens(record)]
         /\ hist' = [hist EXCEPT ![record.id].swept = @ + 1]
  /\ sweeps' = IF Len(sweeps[k].pending) = 1 THEN RemoveAt(sweeps, k)
               ELSE [sweeps EXCEPT ![k] = [pending |-> Tail(@.pending), pc |-> "writeRecord"]]
  /\ UNCHANGED <<walletVars, poolVars, calc, env, now, records, updates, stops, starts, issued>>

\* A store call of the loop (line 44 or line 49) rejects: the exception leaves
\* the loop and distributeRewards, the cron callback logs it (lines 11-12) and
\* the run is over.
SweepThrow(k) ==
  /\ k \in 1..Len(sweeps)
  /\ sweeps' = RemoveAt(sweeps, k)
  /\ UNCHANGED <<walletVars, poolVars, calc, ledger, env, now, users, records, updates, stops, starts,
                 issued, hist>>

\* ------------------------------------------------------------------ updateTokenPoolStats
\* _sum.virtualBalance of user.aggregate over the user rows.
RECURSIVE SumBalances(_)
SumBalances(ids) ==
  IF ids = {} THEN 0
  ELSE LET u == CHOOSE x \in ids : TRUE
       IN  users[u].virtualBalance + SumBalances(ids \ {u})

\* Lines 79-86: the row created when there is none.  totalSupply and
\* reserveBalance are whole tokens, circulatingSupply micro-tokens, the rates
\* thousandths.
TotalSupply == 1000000
ReserveBalance == 900000
NewTokenPool(circulatingSupply) ==
  [totalSupply |-> TotalSupply, circulatingSupply |-> circulatingSupply,
   reserveBalance |-> ReserveBalance, miningRewardRate |-> 1000,
   benchmarkRewardRate |-> 500, minimumWithdrawal |-> 100000000]

\* The hourly cron callback, up to the answer of user.aggregate (line 62).
PoolSumUsers ==
  /\ issued' = issued + 1
  /\ poolRuns' = Append(poolRuns,
       [circulatingSupply |-> SumBalances(DOMAIN users), tokenPool |-> NULL,
        pc |-> "sumMining"])
  /\ UNCHANGED <<miningVars, walletVars, tokenPools, calc, ledger, env, now, users>>

\* Line 66: miningRecord.aggregate; the sum is not used.
PoolSumMining(r) ==
  /\ r \in 1..Len(poolRuns)
  /\ poolRuns[r].pc = "sumMining"
  /\ poolRuns' = [poolRuns EXCEPT ![r].pc = "sumBenchmarks"]
  /\ UNCHANGED <<miningVars, walletVars, tokenPools, calc, ledger, env, now, users, issued>>

\* Line 70: benchmarkResult.aggregate; the sum is not used.
PoolSumBenchmarks(r) ==
  /\ r \in 1..Len(poolRuns)
  /\ poolRuns[r].pc = "sumBenchmarks"
  /\ poolRuns' = [poolRuns EXCEPT ![r].pc = "findFirst"]
  /\ UNCHANGED <<miningVars, walletVars, tokenPools, calc, ledger, env, now, users, issued>>

\* Lines 75-77: tokenPool.findFirst answers the first row, or null.
PoolFindFirst(r) ==
  /\ r \in 1..Len(poolRuns)
  /\ poolRuns[r].pc = "findFirst"
  /\ poolRuns' = [poolRuns EXCEPT ![r] =
       IF tokenPools = <<>> THEN [@ EXCEPT !.pc = "create"]
       ELSE [@ EXCEPT !.pc = "update", !.tokenPool = 1]]
  /\ UNCHANGED <<miningVars, walletVars, tokenPools, calc, ledger, env, now, users, issued>>

\* Lines 78-87: tokenPool.create.
PoolCreate(r) ==
  /\ r \in 1..Len(poolRuns)
  /\ poolRuns[r].pc = "create"
  /\ tokenPools' = Append(tokenPools, NewTokenPool(poolRuns[r].circulatingSupply))
  /\ poolRuns' = RemoveAt(poolRuns, r)
  /\ UNCHANGED <<miningVars, walletVars, calc, ledger, env, now, users, issued>>

\* Lines 89-94: tokenPool.update of the row that was found.
PoolUpdate(r) ==
  /\ r \in 1..Len(poolRuns)
  /\ poolRuns[r].pc = "update"
  /\ tokenPools' = [tokenPools EXCEPT ![poolRuns[r].tokenPool].circulatingSupply =
       poolRuns[r].circulatingSupply]
  /\ poolRuns' = RemoveAt(poolRuns, r)
  /\ UNCHANGED <<miningVars, walletVars, calc, ledger, env, now, users, issued>>

\* ------------------------------------------------------------------ POST /submit (benchmark)
UNDEFINED == 0 - 2

\* String.prototype.toLowerCase on the strings the requests carry.
ToLowerCase(str) ==
  CASE str = "HARD" -> "hard"
    [] str = "Easy" -> "easy"
    [] str = "Medium" -> "medium"
    [] str = "SHA256" -> "sha256"
    [] str = "Scrypt" -> "scrypt"
    [] OTHER -> str

validAlgorithms == {"sha256", "scrypt", "x11"}
validDifficulties == {"easy", "medium", "hard"}

\* getDifficultyMultiplier, in halves: 1.0, 1.5, 2.0, and 1.0 for anything else.
CaseSensitiveMultiplier(difficulty) ==
  CASE difficulty = "easy" -> 2
    [] difficulty = "medium" -> 3
    [] difficulty = "hard" -> 4
    [] OTHER -> 2
getDifficultyMultiplier(difficulty) ==
  CASE ToLowerCase(difficulty) = "easy" -> 2
    [] ToLowerCase(difficulty) = "medium" -> 3
    [] ToLowerCase(difficulty) = "hard" -> 4
    [] OTHER -> 2

\* calculateBenchmarkReward: Math.max(score * baseRate * multiplier / 1000, 0.1);
\* baseRate in thousandths and the multiplier in halves give micro-tokens / 2.
calculateBenchmarkReward(score, duration, difficulty) ==
  LET baseRate == env.BENCHMARK_REWARD_RATE
      difficultyMultiplier == getDifficultyMultiplier(difficulty)
      reward == (score * baseRate * difficultyMultiplier) \div 2
  IN  Max(reward, MinBenchmarkReward)

\* A call of calculateBenchmarkReward and what it returns.
CalcBenchmarkReward(score, duration, difficulty) ==
  /\ calc' = [fn |-> "calculateBenchmarkReward", score |-> score, duration |-> duration,
              difficulty |-> difficulty,
              result |-> calculateBenchmarkReward(score, duration, difficulty)]
  /\ UNCHANGED <<miningVars, walletVars, poolVars, ledger, env, now, users, issued>>

\* Lines 20-40: the four validations, each answered 400.
SubmitRejectedUnchecked(req) ==
  \/ req.userId = "" \/ req.duration = 0 \/ req.duration = UNDEFINED
  \/ req.hashRate = 0 \/ req.hashRate = UNDEFINED
  \/ req.difficulty = "" \/ req.algorithm = "" \/ req.score = UNDEFINED
  \/ req.duration <= 0 \/ req.hashRate <= 0 \/ req.score < 0
  \/ ToLowerCase(req.algorithm) \notin validAlgorithms
SubmitRejected(req) ==
  \/ req.userId = "" \/ req.duration = 0 \/ req.duration = UNDEFINED
  \/ req.hashRate = 0 \/ req.hashRate = UNDEFINED
  \/ req.difficulty = "" \/ req.algorithm = "" \/ req.score = UNDEFINED
  \/ req.duration <= 0 \/ req.hashRate <= 0 \/ req.score < 0
  \/ ToLowerCase(req.algorithm) \notin validAlgorithms
  \/ ToLowerCase(req.difficulty) \notin validDifficulties

\* Lines 20-56: validation, then benchmarkResult.create. When it is answered
\* the handler issues user.update with lastActive: new Date() (line 63): date
\* is the clock of this step.
SubmitCreate(req) ==
  /\ issued' = issued + 1
  /\ IF SubmitRejected(req)
     THEN UNCHANGED <<benchmarks, submits>>
     ELSE LET tokensEarned == calculateBenchmarkReward(req.score, req.duration, req.difficulty)
          IN  /\ benchmarks' = Append(benchmarks,
                    [userId |-> req.userId, duration |-> req.duration,
                     hashRate |-> req.hashRate, difficulty |-> req.difficulty,
                     algorithm |-> req.algorithm, score |-> req.score,
                     tokensEarned |-> tokensEarned])
              /\ submits' = Append(submits,
                    [userId |-> req.userId, tokensEarned |-> tokensEarned, date |-> now])
  /\ UNCHANGED <<miningVars, ledger, poolVars, calc, env, now, users, txs, withdraws, pws, replies, txHist>>

\* Lines 59-65: the store applies user.update: the balance is incremented and
\* lastActive set to the date the handler passed.
SubmitCredit(j) ==
  /\ j \in 1..Len(submits)
  /\ users' = [users EXCEPT ![submits[j].userId] =
       [@ EXCEPT !.virtualBalance = @ + submits[j].tokensEarned,
                 !.lastActive = submits[j].date]]
  /\ ledger' = [ledger EXCEPT ![submits[j].userId].credits = @ + submits[j].tokensEarned]
  /\ submits' = RemoveAt(submits, j)
  /\ UNCHANGED <<miningVars, poolVars, calc, env, now, issued, benchmarks, txs, withdraws, pws, replies, txHist>>

\* ------------------------------------------------------------------ POST /withdraw
\* Lines 325-330: new PublicKey(toAddress) decodes the string as base 58 and
\* throws unless the result is 32 bytes long.
ALPHABET == "123456789ABCDEFGHJKLMNPQRSTUVWXYZabcdefghijkmnopqrstuvwxyz"
PUBLIC_KEY_LENGTH == 32
CharAt(string, i) == SubSeq(string, i, i)

\* The value of each character of the alphabet: its position, from 0.
BASE_MAP ==
  [char \in {CharAt(ALPHABET, d) : d \in 1..Len(ALPHABET)} |->
     (CHOOSE d \in 1..Len(ALPHABET) : CharAt(ALPHABET, d) = char) - 1]

\* The value of a base-58 digit, NULL for a character outside the alphabet.
DigitOf(char) == IF char \in DOMAIN BASE_MAP THEN BASE_MAP[char] ELSE NULL

\* bytes * 58 + carry, bytes being a number in base 256 with the lowest byte
\* first and no zero byte at the top.
RECURSIVE MulAdd(_, _)
MulAdd(bytes, carry) ==
  IF bytes = <<>>
  THEN IF carry = 0 THEN <<>> ELSE <<carry % 256>> \o MulAdd(<<>>, carry \div 256)
  ELSE LET v == bytes[1] * 58 + carry
       IN  <<v % 256>> \o MulAdd(Tail(bytes), v \div 256)

\* The number the digits string[i..] add to bytes, <<NULL>> when one of them
\* is outside the alphabet.
RECURSIVE DecodeFrom(_, _, _)
DecodeFrom(string, i, bytes) ==
  IF i > Len(string) THEN bytes
  ELSE IF DigitOf(CharAt(string, i)) = NULL THEN <<NULL>>
  ELSE DecodeFrom(string, i + 1, MulAdd(bytes, DigitOf(CharAt(string, i))))

\* Each leading "1" of the string is one zero byte of the result.
RECURSIVE LeadingOnes(_, _)
LeadingOnes(string, i) ==
  IF i <= Len(string) /\ CharAt(string, i) = "1" THEN 1 + LeadingOnes(string, i + 1) ELSE 0

\* The length of bs58.decode(string), NULL when it throws.
DecodedLength(string) ==
  LET number == DecodeFrom(string, 1, <<>>)
  IN  IF number = <<NULL>> THEN NULL ELSE LeadingOnes(string, 1) + Len(number)

\* The addresses of the requests below: the wrapped SOL mint and the system
\* program, which are 32 bytes long; a string with a character outside the
\* alphabet, one of 9 bytes and one of 33.
ValidAddresses ==
  {"So11111111111111111111111111111111111111112", "11111111111111111111111111111111"}
Addresses ==
  ValidAddresses \cup {"not-base58", "So1111111112", "111111111111111111111111111111111"}

\* DecodedLength of those addresses, evaluated once.
DecodedLengths == [string \in Addresses |-> DecodedLength(string)]

IsValidAddress(toAddress) ==
  LET length == IF toAddress \in DOMAIN DecodedLengths
                THEN DecodedLengths[toAddress]
                ELSE DecodedLength(toAddress)
  IN  length = PUBLIC_KEY_LENGTH

\* Lines 308-330: the three guards in the order of the code, each answered
\* 400; "ok" when the request passes them.
UncheckedBalance(user, withdrawAmount, toAddress) ==
  IF withdrawAmount < env.MINIMUM_WITHDRAWAL THEN "belowMinimum"
  ELSE IF ~IsValidAddress(toAddress) THEN "invalidAddress"
  ELSE "ok"
WithdrawAnswer(user, withdrawAmount, toAddress) ==
  LET minWithdrawal == env.MINIMUM_WITHDRAWAL
      availableBalance == user.virtualBalance
  IN  IF withdrawAmount < minWithdrawal THEN "belowMinimum"
      ELSE IF withdrawAmount > availableBalance THEN "insufficient"
      ELSE IF ~IsValidAddress(toAddress) THEN "invalidAddress"
      ELSE "ok"

\* Lines 300-330: user.findUnique (404 for an unknown user), then the guards.
WithdrawFind(userId, amount, toAddress) ==
  /\ issued' = issued + 1
  /\ IF userId \notin DOMAIN users
     THEN /\ replies' = [replies EXCEPT !.notFound = @ + 1]
          /\ UNCHANGED withdraws
     ELSE LET answer == WithdrawAnswer(users[userId], amount, toAddress)
          IN  IF answer # "ok"
              THEN /\ replies' = [replies EXCEPT ![answer] = @ + 1]
                   /\ UNCHANGED withdraws
              ELSE /\ withdraws' = Append(withdraws,
                         [userId |-> userId, amount |-> amount, toAddress |-> toAddress])
                   /\ UNCHANGED replies
  /\ UNCHANGED <<miningVars, ledger, poolVars, calc, env, now, users, benchmarks, txs, submits, pws, txHist>>

\* processWithdrawal(transactionId) up to its first await.
NewProcessing(transactionId) ==
  [transactionId |-> transactionId, pc |-> "find", userId |-> "", amount |-> 0, balance |-> 0]

\* Lines 333-350: walletTransaction.create with status PENDING, the call of
\* processWithdrawal, which is not awaited, and the response.
WithdrawCreate(j) ==
  /\ j \in 1..Len(withdraws)
  /\ txs' = Append(txs,
       [userId |-> withdraws[j].userId, type |-> "WITHDRAWAL", amount |-> withdraws[j].amount,
        toAddress |-> withdraws[j].toAddress, status |-> "PENDING", txHash |-> ""])
  /\ txHist' = Append(txHist, [claims |-> 0, debits |-> 0])
  /\ pws' = Append(pws, NewProcessing(Len(txs) + 1))
  /\ replies' = [replies EXCEPT !.ok = @ + 1]
  /\ withdraws' = RemoveAt(withdraws, j)
  /\ UNCHANGED <<miningVars, ledger, poolVars, calc, env, now, users, issued, benchmarks, submits>>

\* ------------------------------------------------------------------ processWithdrawal
\* Lines 425-432: walletTransaction.findUnique with the user included; the call
\* returns unless the row is PENDING.
PwFind(p) ==
  /\ p \in 1..Len(pws)
  /\ pws[p].pc = "find"
  /\ LET t == pws[p].transactionId
     IN  IF t \notin 1..Len(txs) \/ txs[t].status # "PENDING"
         THEN /\ pws' = RemoveAt(pws, p)
              /\ UNCHANGED txHist
         ELSE /\ pws' = [pws EXCEPT ![p] =
                    [@ EXCEPT !.pc = "setProcessing", !.userId = txs[t].userId,
                              !.amount = txs[t].amount,
                              !.balance = users[txs[t].userId].virtualBalance]]
              /\ txHist' = [txHist EXCEPT ![t].claims = @ + 1]
  /\ UNCHANGED <<miningVars, ledger, poolVars, calc, env, now, users, issued, benchmarks, txs, submits,
                 withdraws, replies>>

\* Lines 435-438.
PwSetProcessing(p) ==
  /\ p \in 1..Len(pws)
  /\ pws[p].pc = "setProcessing"
  /\ txs' = [txs EXCEPT ![pws[p].transactionId].status = "PROCESSING"]
  /\ pws' = [pws EXCEPT ![p].pc = "delay"]
  /\ UNCHANGED <<miningVars, ledger, poolVars, calc, env, now, users, issued, benchmarks, submits,
                 withdraws, replies, txHist>>

\* Line 444: the timer of the simulated transfer fires.
PwDelay(p) ==
  /\ p \in 1..Len(pws)
  /\ pws[p].pc = "delay"
  /\ pws' = [pws EXCEPT ![p].pc = "setCompleted"]
  /\ UNCHANGED <<miningVars, ledger, poolVars, calc, env, now, users, issued, benchmarks, txs, submits,
                 withdraws, replies, txHist>>

\* Lines 452-462.
PwSetCompleted(p) ==
  /\ p \in 1..Len(pws)
  /\ pws[p].pc = "setCompleted"
  /\ txs' = [txs EXCEPT ![pws[p].transactionId] =
       [@ EXCEPT !.status = "COMPLETED", !.txHash = "solana_tx"]]
  /\ pws' = [pws EXCEPT ![p].pc = "decrement"]
  /\ UNCHANGED <<miningVars, ledger, poolVars, calc, env, now, users, issued, benchmarks, submits,
                 withdraws, replies, txHist>>

\* Lines 465-472: the balance after the store's decrement.
DecrementedFromRead(current, read, amount) == read - amount
DecrementedBalance(current, read, amount) == current - amount

PwDecrement(p) ==
  /\ p \in 1..Len(pws)
  /\ pws[p].pc = "decrement"
  /\ users' = [users EXCEPT ![pws[p].userId].virtualBalance =
       DecrementedBalance(@, pws[p].balance, pws[p].amount)]
  /\ ledger' = [ledger EXCEPT ![pws[p].userId].debits = @ + pws[p].amount]
  /\ txHist' = [txHist EXCEPT ![pws[p].transactionId].debits = @ + 1]
  /\ pws' = RemoveAt(pws, p)
  /\ UNCHANGED <<miningVars, poolVars, calc, env, now, issued, benchmarks, txs, submits, withdraws, replies>>

\* A store call of lines 425-472 rejects: control goes to the catch block.
PwThrowApplied(p) ==
  /\ p \in 1..Len(pws)
  /\ pws[p].pc \in {"find", "setProcessing", "setCompleted", "decrement"}
  /\ pws' = [pws EXCEPT ![p].pc = "catch"]
  /\ IF pws[p].pc = "decrement"
     THEN /\ users' = [users EXCEPT ![pws[p].userId].virtualBalance = @ - pws[p].amount]
          /\ ledger' = [ledger EXCEPT ![pws[p].userId].debits = @ + pws[p].amount]
          /\ txHist' = [txHist EXCEPT ![pws[p].transactionId].debits = @ + 1]
     ELSE UNCHANGED <<users, ledger, txHist>>
  /\ UNCHANGED <<miningVars, poolVars, calc, env, now, issued, benchmarks, txs, submits,
                 withdraws, replies>>
PwThrow(p) ==
  /\ p \in 1..Len(pws)
  /\ pws[p].pc \in {"find", "setProcessing", "setCompleted", "decrement"}
  /\ pws' = [pws EXCEPT ![p].pc = "catch"]
  /\ UNCHANGED <<miningVars, ledger, poolVars, calc, env, now, users, issued, benchmarks, txs, submits,
                 withdraws, replies, txHist>>

\* Lines 475-483: the catch block marks the transaction FAILED.
PwMarkFailed(p) ==
  /\ p \in 1..Len(pws)
  /\ pws[p].pc = "catch"
  /\ txs' = [t \in 1..Len(txs) |->
       IF t = pws[p].transactionId THEN [txs[t] EXCEPT !.status = "FAILED"] ELSE txs[t]]
  /\ pws' = RemoveAt(pws, p)
  /\ UNCHANGED <<miningVars, ledger, poolVars, calc, env, now, users, issued, benchmarks, submits,
                 withdraws, replies, txHist>>

\* Line 479: the update of the catch block rejects as well.  The promise of
\* processWithdrawal, which line 344 neither awaits nor catches, rejects
\* unhandled: the runtime either ends the process, and every handler in
\* flight with it, or reports the rejection and goes on.  The row keeps the
\* status it had.
PwCatchThrow(p) ==
  /\ p \in 1..Len(pws)
  /\ pws[p].pc = "catch"
  /\ \E exits \in BOOLEAN :
       IF exits
       THEN /\ pws' = <<>> /\ withdraws' = <<>> /\ submits' = <<>>
            /\ starts' = <<>> /\ updates' = <<>> /\ stops' = <<>> /\ sweeps' = <<>>
            /\ poolRuns' = <<>>
       ELSE /\ pws' = RemoveAt(pws, p)
            /\ UNCHANGED <<withdraws, submits, updates, stops, starts, sweeps, poolRuns>>
  /\ UNCHANGED <<env, now, users, issued, ledger, records, hist, benchmarks, txs, replies,
                 txHist, tokenPools, calc>>

\* ------------------------------------------------------------------ sequential updates
\* The next request of a client that reports one hash rate and a growing
\* cumulative duration, sent after the previous update was answered.
SeqInput(sessionId, hashRate, duration) ==
  /\ updates = <<>>
  /\ sessionId \in 1..Len(records)
  /\ \/ records[sessionId].duration = NULL
     \/ /\ hashRate = records[sessionId].hashRate
        /\ duration > records[sessionId].duration

SeqDurations == {10, 20, 30}

SeqNext ==
  \/ \E u \in Users : issued < SeqMaxOps /\ Start(u)
  \/ \E j \in 1..Len(starts) : StartCreate(j)
  \/ \E s \in 1..SeqMaxOps, h \in HashRates, t \in SeqDurations :
       issued < SeqMaxOps /\ SeqInput(s, h, t) /\ UpdateFind(s, h, t)
  \/ \E i \in 1..SeqMaxOps : UpdateWriteRecord(i)
  \/ \E i \in 1..SeqMaxOps : UpdateWriteUser(i)

SpecSeq == InitWith(Rates) /\ [][SeqNext]_vars

\* ------------------------------------------------------------------ overlapping updates
UpdNext ==
  \/ issued < UpdMaxOps /\ Tick
  \/ \E u \in Users : issued < UpdMaxOps /\ Start(u)
  \/ \E j \in 1..Len(starts) : StartCreate(j)
  \/ \E s \in 1..(Len(records) + 1), h \in HashRates, t \in Durations :
       issued < UpdMaxOps /\ UpdateFind(s, h, t)
  \/ \E i \in 1..UpdMaxOps : UpdateWriteRecord(i)
  \/ \E i \in 1..UpdMaxOps : UpdateWriteUser(i)

SpecUpd == Init /\ [][UpdNext]_vars

\* ------------------------------------------------------------------ the mining routes, the socket and the sweep
MiningHashRates == {0, 500000}

MiningNext ==
  \/ issued < MiningMaxOps /\ Tick
  \/ \E u \in Users : issued < MiningMaxOps /\ Start(u)
  \/ \E j \in 1..Len(starts) : StartCreate(j)
  \/ \E s \in 1..(Len(records) + 1), h \in MiningHashRates :
       issued < MiningMaxOps /\ MiningStats(s, h)
  \/ \E s \in 1..(Len(records) + 1), h \in MiningHashRates, t \in Durations :
       issued < MiningMaxOps /\ UpdateFind(s, h, t)
  \/ \E i \in 1..MiningMaxOps : UpdateWriteRecord(i)
  \/ \E i \in 1..MiningMaxOps : UpdateWriteUser(i)
  \/ \E s \in 1..(Len(records) + 1) : issued < MiningMaxOps /\ StopFind(s)
  \/ \E j \in 1..MiningMaxOps : StopWrite(j)
  \/ issued < MiningMaxOps /\ SweepFind
  \/ \E k \in 1..MiningMaxOps : SweepWriteRecord(k)
  \/ \E k \in 1..MiningMaxOps : SweepWriteUser(k)

SpecMining == Init /\ [][MiningNext]_vars

\* ------------------------------------------------------------------ the wallet
\* A benchmark worth 100 tokens, which funds a withdrawal.
Funding ==
  {[userId |-> "u1", duration |-> 60, hashRate |-> 1000, difficulty |-> "easy",
    algorithm |-> "sha256", score |-> 200000]}

WalletUsers == {"u1", "nobody"}
Amounts == {50000000, 100000000, 150000000}

Processing ==
  \/ \E p \in 1..Len(pws) : PwFind(p)
  \/ \E p \in 1..Len(pws) : PwSetProcessing(p)
  \/ \E p \in 1..Len(pws) : PwDelay(p)
  \/ \E p \in 1..Len(pws) : PwSetCompleted(p)
  \/ \E p \in 1..Len(pws) : PwDecrement(p)

\* A store call of processWithdrawal rejects and the catch block runs.
Failing ==
  \/ \E p \in 1..Len(pws) : PwThrow(p)
  \/ \E p \in 1..Len(pws) : PwMarkFailed(p)

WalletNext ==
  \/ \E req \in Funding : issued < WalletMaxOps /\ SubmitCreate(req)
  \/ \E j \in 1..Len(submits) : SubmitCredit(j)
  \/ \E u \in WalletUsers, a \in Amounts, addr \in Addresses :
       issued < WalletMaxOps /\ WithdrawFind(u, a, addr)
  \/ \E j \in 1..Len(withdraws) : WithdrawCreate(j)
  \/ Processing
  \/ Failing

SpecWallet == Init /\ [][WalletNext]_vars

\* ------------------------------------------------------------------ every writer of one user's balance
LedgerNext ==
  \/ issued < LedgerMaxOps /\ Start("u1")
  \/ \E j \in 1..Len(starts) : StartCreate(j)
  \/ \E s \in 1..Len(records), t \in Durations :
       issued < LedgerMaxOps /\ UpdateFind(s, 500000, t)
  \/ \E i \in 1..Len(updates) : UpdateWriteRecord(i)
  \/ \E i \in 1..Len(updates) : UpdateWriteUser(i)
  \/ \E s \in 1..Len(records) : issued < LedgerMaxOps /\ StopFind(s)
  \/ \E j \in 1..Len(stops) : StopWrite(j)
  \/ issued < LedgerMaxOps /\ SweepFind
  \/ \E k \in 1..Len(sweeps) : SweepWriteRecord(k)
  \/ \E k \in 1..Len(sweeps) : SweepWriteUser(k)
  \/ \E req \in Funding : issued < LedgerMaxOps /\ SubmitCreate(req)
  \/ \E j \in 1..Len(submits) : SubmitCredit(j)
  \/ issued < LedgerMaxOps /\ WithdrawFind("u1", DefaultMinimumWithdrawal, "So11111111111111111111111111111111111111112")
  \/ \E j \in 1..Len(withdraws) : WithdrawCreate(j)
  \/ Processing

SpecLedger == Init /\ [][LedgerNext]_vars

\* ------------------------------------------------------------------ settlement with a failing store
SettleMaxOps == 4

SettleNext ==
  \/ \E req \in Funding : issued < SettleMaxOps /\ SubmitCreate(req)
  \/ \E j \in 1..Len(submits) : SubmitCredit(j)
  \/ \E a \in Amounts, addr \in ValidAddresses :
       issued < SettleMaxOps /\ WithdrawFind("u1", a, addr)
  \/ \E j \in 1..Len(withdraws) : WithdrawCreate(j)
  \/ Processing
  \/ Failing
  \/ \E p \in 1..Len(pws) : PwCatchThrow(p)

SpecSettle == Init /\ [][SettleNext]_vars

\* A call of processWithdrawal that can take a step takes one: the event loop
\* runs every continuation whose store call or timer has answered.
ProcessingTask ==
  \/ Processing
  \/ Failing
  \/ \E p \in 1..Len(pws) : PwCatchThrow(p)

SpecSettleFair == SpecSettle /\ WF_vars(ProcessingTask)

\* ------------------------------------------------------------------ the sweep with a failing store
SweepMaxOps == 6

SweepNext ==
  \/ issued < SweepMaxOps /\ Tick
  \/ issued < SweepMaxOps /\ Start("u1")
  \/ \E j \in 1..Len(starts) : StartCreate(j)
  \/ \E s \in 1..Len(records) : issued < SweepMaxOps /\ MiningStats(s, 500000)
  \/ \E s \in 1..Len(records) : issued < SweepMaxOps /\ StopFind(s)
  \/ \E j \in 1..Len(stops) : StopWrite(j)
  \/ issued < SweepMaxOps /\ SweepFind
  \/ \E k \in 1..Len(sweeps) : SweepWriteRecord(k)
  \/ \E k \in 1..Len(sweeps) : SweepWriteUser(k)
  \/ \E k \in 1..Len(sweeps) : SweepThrow(k)

SpecSweep == Init /\ [][SweepNext]_vars

\* ------------------------------------------------------------------ the pool statistics
PoolMaxOps == 4

PoolNext ==
  \/ \E req \in Funding : issued < PoolMaxOps /\ SubmitCreate(req)
  \/ \E j \in 1..Len(submits) : SubmitCredit(j)
  \/ issued < PoolMaxOps /\ PoolSumUsers
  \/ \E r \in 1..Len(poolRuns) : PoolSumMining(r)
  \/ \E r \in 1..Len(poolRuns) : PoolSumBenchmarks(r)
  \/ \E r \in 1..Len(poolRuns) : PoolFindFirst(r)
  \/ \E r \in 1..Len(poolRuns) : PoolCreate(r)
  \/ \E r \in 1..Len(poolRuns) : PoolUpdate(r)

SpecPool == Init /\ [][PoolNext]_vars

\* ------------------------------------------------------------------ benchmark submissions
SubmitMaxOps == 3

\* The bodies of the requests: a valid one and its variations in one field
\* (a field that is absent reads undefined; "" is the empty string).
BaseSubmission ==
  [userId |-> "u1", duration |-> 60, hashRate |-> 1000, difficulty |-> "hard",
   algorithm |-> "sha256", score |-> 800]

Submissions ==
  {[BaseSubmission EXCEPT !.userId = v] : v \in {"u1", "u2", ""}}
    \cup {[BaseSubmission EXCEPT !.duration = v] : v \in {60, 0, 0 - 5, UNDEFINED}}
    \cup {[BaseSubmission EXCEPT !.hashRate = v] : v \in {1000, 0, 0 - 5, UNDEFINED}}
    \cup {[BaseSubmission EXCEPT !.difficulty = v] :
            v \in {"easy", "medium", "hard", "HARD", "Medium", "extreme", ""}}
    \cup {[BaseSubmission EXCEPT !.algorithm = v] :
            v \in {"sha256", "scrypt", "x11", "SHA256", "md5", ""}}
    \cup {[BaseSubmission EXCEPT !.score = v] : v \in {800, 0, 50, 0 - 5, UNDEFINED}}

SubmitNext ==
  \/ issued < SubmitMaxOps /\ Tick
  \/ \E req \in Submissions : issued < SubmitMaxOps /\ SubmitCreate(req)
  \/ \E j \in 1..Len(submits) : SubmitCredit(j)

SpecSubmit == Init /\ [][SubmitNext]_vars

\* ------------------------------------------------------------------ the benchmark reward function
\* Values of BENCHMARK_REWARD_RATE: '0.25', '0.5', '1.0'.
BenchmarkRates == {250, 500, 1000}
Scores == {0, 50, 100, 199, 200, 800, 200000}
BenchmarkDurations == {1, 60, 3600}
Difficulties == {"easy", "medium", "hard", "Easy", "Medium", "HARD", "extreme", ""}

BenchmarkRewardNext ==
  \E s \in Scores, t \in BenchmarkDurations, d \in Difficulties : CalcBenchmarkReward(s, t, d)

SpecBenchmarkReward == InitEnv({DefaultMiningRate}, BenchmarkRates) /\ [][BenchmarkRewardNext]_vars

\* ------------------------------------------------------------------ the mining reward function and its use
RewardMaxOps == 3
\* 50 H/s for 10 s or 20 s is below the minimum reward.
RewardHashRates == {50, 250000, 500000}

MiningRewardNext ==
  \/ \E h \in RewardHashRates, t \in Durations : CalcMiningReward(h, t)
  \/ issued < RewardMaxOps /\ Start("u1")
  \/ \E j \in 1..Len(starts) : StartCreate(j)
  \/ \E s \in 1..Len(records), h \in RewardHashRates, t \in Durations :
       issued < RewardMaxOps /\ UpdateFind(s, h, t)
  \/ \E i \in 1..Len(updates) : UpdateWriteRecord(i)
  \/ \E i \in 1..Len(updates) : UpdateWriteUser(i)

SpecMiningReward == InitWith(Rates) /\ [][MiningRewardNext]_vars

\* ------------------------------------------------------------------ the sweep over a backlog
BatchMaxOps == 3

\* How many sessions were started and stopped, before the first run of the
\* sweep: below, at and above the batch size.
Backlogs == {0, 1, BatchSize - 1, BatchSize, BatchSize + 1}

\* A session of u1 that ran from 0 s to 10 s and was stopped; the socket
\* reported 500000 H/s for every second session.
StoppedRecord(id) ==
  [userId |-> "u1", startTime |-> 0, endTime |-> 10000,
   hashRate |-> IF id % 2 = 0 THEN 500000 ELSE 0,
   duration |-> 10, coinsEarned |-> 0, tokensEarned |-> 0]

\* The store after n sessions were started and stopped.
InitBacklog ==
  /\ env = [MINING_REWARD_RATE |-> DefaultMiningRate,
            BENCHMARK_REWARD_RATE |-> DefaultBenchmarkRate,
            MINIMUM_WITHDRAWAL |-> DefaultMinimumWithdrawal]
  /\ now = 10000
  /\ users = [u \in Users |-> NewUser]
  /\ \E n \in Backlogs :
       /\ records = [id \in 1..n |-> StoppedRecord(id)]
       /\ hist = [id \in 1..n |-> NoHist]
  /\ starts = <<>> /\ updates = <<>> /\ stops = <<>> /\ sweeps = <<>>
  /\ benchmarks = <<>> /\ txs = <<>> /\ submits = <<>> /\ withdraws = <<>> /\ pws = <<>>
  /\ issued = 0
  /\ ledger = [u \in Users |-> [credits |-> 0, debits |-> 0]]
  /\ replies = [ok |-> 0, belowMinimum |-> 0, insufficient |-> 0, invalidAddress |-> 0,
                notFound |-> 0]
  /\ txHist = <<>>
  /\ tokenPools = <<>> /\ poolRuns = <<>>
  /\ calc = [fn |-> "none"]

\* The runs of the sweep, each started when the one before it has ended (a
\* run takes less than the minute of the schedule).
BatchNext ==
  \/ issued < BatchMaxOps /\ sweeps = <<>> /\ SweepFind
  \/ \E k \in 1..Len(sweeps) : SweepWriteRecord(k)
  \/ \E k \in 1..Len(sweeps) : SweepWriteUser(k)

SpecBatch == InitBacklog /\ [][BatchNext]_vars

\* ------------------------------------------------------------------ the sweep under every reward rate
SpecSweepRates == InitWith(Rates) /\ [][SweepNext]_vars

\* ------------------------------------------------------------------ sequential updates with any values
AnyMaxOps == 4

\* Updates of the sessions of u1, each sent after the previous one was
\* answered, with any hash rate and duration.
AnyNext ==
  \/ issued < AnyMaxOps /\ Start("u1")
  \/ \E j \in 1..Len(starts) : StartCreate(j)
  \/ \E s \in 1..Len(records), h \in HashRates, t \in SeqDurations :
       issued < AnyMaxOps /\ updates = <<>> /\ UpdateFind(s, h, t)
  \/ \E i \in 1..Len(updates) : UpdateWriteRecord(i)
  \/ \E i \in 1..Len(updates) : UpdateWriteUser(i)

SpecAny == InitWith(Rates) /\ [][AnyNext]_vars

\* ------------------------------------------------------------------ claims
\* The cumulative reward of the last update a session's record shows.
LastCoins(s) == calculateMiningReward(records[s].hashRate, records[s].duration)
LastTokens(s) == MiningTokens(LastCoins(s), env.MINING_REWARD_RATE)
Updated(s) == records[s].duration # NULL

RECURSIVE SumLastCoins(_, _)
SumLastCoins(n, userId) ==
  IF n = 0 THEN 0
  ELSE SumLastCoins(n - 1, userId)
       + (IF records[n].userId = userId /\ Updated(n) THEN LastCoins(n) ELSE 0)

RECURSIVE SumLastTokens(_, _)
SumLastTokens(n, userId) ==
  IF n = 0 THEN 0
  ELSE SumLastTokens(n - 1, userId)
       + (IF records[n].userId = userId /\ Updated(n) THEN LastTokens(n) ELSE 0)

\* C1: after sequential updates of a session with one hash rate and strictly
\* increasing cumulative durations, the update route has added to the owner
\* exactly the token reward and the coins of the last cumulative state: per
\* session, and in the owner's virtualBalance and totalMined (which only these
\* updates change here).
C1_SequentialUpdatesCreditFinalReward ==
  updates = <<>> =>
    /\ \A s \in 1..Len(records) :
         Updated(s) => /\ hist[s].tokens = LastTokens(s)
                       /\ hist[s].coins = LastCoins(s)
    /\ \A u \in Users :
         /\ users[u].virtualBalance = SumLastTokens(Len(records), u)
         /\ users[u].totalMined = SumLastCoins(Len(records), u)

\* Three updates of one session (10 s, 20 s, 30 s at 500000 H/s) were answered
\* and the owner holds the reward of the 30 s state, 15 coins.
C1_Witness ==
  /\ updates = <<>>
  /\ \E s \in 1..Len(records) :
       /\ hist[s].n = 3
       /\ records[s].hashRate = 500000 /\ records[s].duration = 30
       /\ users[records[s].userId].totalMined = 15000000
       /\ users[records[s].userId].virtualBalance = MiningTokens(15000000, env.MINING_REWARD_RATE)

\* C2: with overlapping updates, what the update route has added to the
\* owner's virtualBalance and totalMined for a session never exceeds the
\* largest cumulative reward written to that session's record.
C2_NoDoubleCredit ==
  \A s \in 1..Len(records) :
    /\ hist[s].tokens <= hist[s].maxTokens
    /\ hist[s].coins <= hist[s].maxCoins

\* C4: no update lowers the cumulative coinsEarned or tokensEarned a session's
\* record stores.
C4_StoredEarningsMonotone ==
  [][\A s \in 1..Len(records) :
       /\ records'[s].coinsEarned >= records[s].coinsEarned
       /\ records'[s].tokensEarned >= records[s].tokensEarned]_vars

\* C5: the user write of an update whose two deltas are zero leaves
\* virtualBalance and totalMined as they were, sets totalHashRate to the
\* reported hash rate and lastActive to the time at which the handler issued
\* the write.
C5_ZeroDeltaRefreshesOnly ==
  [][\A i \in 1..Len(updates) :
       (/\ UpdateWriteUser(i)
        /\ updates[i].newCoinsEarned = 0
        /\ updates[i].newTokensEarned = 0)
       => LET u == updates[i].userId
          IN  /\ users'[u].virtualBalance = users[u].virtualBalance
              /\ users'[u].totalMined = users[u].totalMined
              /\ users'[u].totalHashRate = updates[i].hashRate
              /\ updates[i].date \in 0..now
              /\ users'[u].lastActive = updates[i].date]_vars

\* A session was updated twice, the second update repeated the first one's
\* cumulative value, was settled without increment after the clock moved, and
\* reported another hash rate, which the owner's row now shows.
C5_Witness ==
  /\ updates = <<>>
  /\ \E s \in 1..Len(records) :
       /\ hist[s].n = 2 /\ hist[s].idle = 1
       /\ records[s].coinsEarned = hist[s].maxCoins
       /\ records[s].hashRate = 250000 /\ records[s].duration = 20
       /\ users[records[s].userId].totalHashRate = 250000
       /\ users[records[s].userId].lastActive > 0
       /\ users[records[s].userId].virtualBalance = hist[s].maxTokens

\* C3: no user write of a mining-session update lowers the owner's
\* virtualBalance or totalMined.
C3_NoNegativeDelta ==
  [][\A i \in 1..Len(updates) :
       UpdateWriteUser(i)
       => LET u == updates[i].userId
          IN  /\ users'[u].virtualBalance >= users[u].virtualBalance
              /\ users'[u].totalMined >= users[u].totalMined]_vars

\* C6: a user's virtualBalance is the sum of the increments sent to the store
\* for that user minus the sum of the decrements sent, whatever the
\* interleaving of updates, benchmark submissions, sweep runs and withdrawals.
C6_NoLostIncrement ==
  \A u \in Users : users[u].virtualBalance = ledger[u].credits - ledger[u].debits

\* Nothing is in flight; u1 was credited by a benchmark and by a mining update
\* and debited by a completed withdrawal.
C6_Witness ==
  /\ updates = <<>> /\ sweeps = <<>> /\ submits = <<>> /\ withdraws = <<>> /\ pws = <<>>
  /\ Len(benchmarks) >= 1
  /\ \E s \in 1..Len(records) : hist[s].tokens > 0
  /\ ledger["u1"].debits > 0
  /\ ledger["u1"].credits > benchmarks[1].tokensEarned
  /\ \E t \in 1..Len(txs) : txs[t].status = "COMPLETED"

\* What the claim requires of a request for a row to be created.
Acceptable(userId, amount, toAddress) ==
  /\ userId \in DOMAIN users
  /\ amount >= env.MINIMUM_WITHDRAWAL
  /\ amount <= users[userId].virtualBalance
  /\ IsValidAddress(toAddress)

\* C7: a withdrawal request goes on to create a row only if the user exists,
\* the amount is at least the minimum and at most the user's balance and the
\* address is valid; the row is created PENDING for that request; any other
\* request changes no row, no user and starts no processing.
C7_WithdrawalEntryGuard ==
  [][/\ Len(withdraws') > Len(withdraws) =>
          LET f == withdraws'[Len(withdraws')]
          IN  Acceptable(f.userId, f.amount, f.toAddress)
     /\ Len(txs') > Len(txs) =>
          /\ Len(txs') = Len(txs) + 1
          /\ txs'[Len(txs')].status = "PENDING"
          /\ \E j \in 1..Len(withdraws) :
               /\ withdraws' = RemoveAt(withdraws, j)
               /\ txs'[Len(txs')].userId = withdraws[j].userId
               /\ txs'[Len(txs')].amount = withdraws[j].amount
               /\ txs'[Len(txs')].toAddress = withdraws[j].toAddress
     /\ \A u \in WalletUsers, a \in Amounts, addr \in Addresses :
          (WithdrawFind(u, a, addr) /\ ~Acceptable(u, a, addr)) =>
            /\ UNCHANGED <<users, txs, withdraws, pws, benchmarks, submits, ledger, txHist>>
            /\ replies'.ok = replies.ok]_vars

\* One request was accepted and its row is the only one; requests below the
\* minimum, above the balance, with a malformed address or an unknown user
\* were answered without a row.
C7_Witness ==
  /\ replies.ok = 1 /\ Len(txs) = 1
  /\ replies.belowMinimum + replies.insufficient + replies.invalidAddress + replies.notFound = 2
  /\ replies.insufficient = 1
  /\ withdraws = <<>>

\* C8: no user's virtualBalance is negative.
C8_BalanceNonNegative ==
  \A u \in Users : users[u].virtualBalance >= 0

\* C9: a transaction's status changes only PENDING -> PROCESSING,
\* PROCESSING -> COMPLETED or PROCESSING -> FAILED.
C9_StatusMachine ==
  [][\A t \in 1..Len(txs) :
       txs'[t].status # txs[t].status =>
         <<txs[t].status, txs'[t].status>> \in
           {<<"PENDING", "PROCESSING">>, <<"PROCESSING", "COMPLETED">>,
            <<"PROCESSING", "FAILED">>}]_vars

\* No call of processWithdrawal is in flight for transaction t.
Finished(t) == \A p \in 1..Len(pws) : pws[p].transactionId # t

\* C11: once processing of a transaction has finished, a transaction whose
\* status is COMPLETED has a txHash recorded and its amount was decremented
\* from the owner's virtualBalance exactly once.
C11_CompletedIsDebitedOnce ==
  \A t \in 1..Len(txs) :
    (Finished(t) /\ txs[t].status = "COMPLETED") =>
      /\ txs[t].txHash # ""
      /\ txHist[t].debits = 1

\* C12: the amount of a transaction whose status is FAILED was never
\* decremented from the owner's virtualBalance, and the owner's balance is
\* what was credited minus the amounts of the transactions that were debited.
C12_FailedIsNotDebited ==
  \A t \in 1..Len(txs) :
    txs[t].status = "FAILED" =>
      /\ txHist[t].debits = 0
      /\ Finished(t) =>
           users[txs[t].userId].virtualBalance + ledger[txs[t].userId].debits
             = ledger[txs[t].userId].credits

\* A withdrawal of the whole balance failed at the decrement (the row had
\* been set COMPLETED with its txHash) and the owner still holds the 100
\* tokens of the benchmark.
C12_Witness ==
  /\ pws = <<>>
  /\ \E t \in 1..Len(txs) :
       /\ txs[t].status = "FAILED" /\ txs[t].txHash # ""
       /\ txs[t].amount = 100000000
       /\ users[txs[t].userId].virtualBalance = 100000000

\* C13: every transaction that enters PROCESSING eventually is COMPLETED or
\* FAILED.
C13_NoStuckProcessing ==
  \A t \in 1..SettleMaxOps :
    (t \in 1..Len(txs) /\ txs[t].status = "PROCESSING")
      ~> (t \in 1..Len(txs) /\ txs[t].status \in {"COMPLETED", "FAILED"})

\* C14: whatever the interleaving of sweep runs, the sweep adds the reward of
\* a mining session to the owner's virtualBalance at most once.
C14_SweepCreditsOnce ==
  \A s \in 1..Len(records) : hist[s].swept <= 1

\* C15: a sweep run ends only with the last record it selected: when a store
\* call for one record rejects, no other record of the batch is left
\* unprocessed by that run.
C15_ErrorKeepsBatch ==
  [][\A k \in 1..Len(sweeps) :
       (SweepThrow(k) \/ (SweepWriteUser(k) /\ Len(sweeps') < Len(sweeps)))
       => Tail(sweeps[k].pending) = <<>>]_vars

\* The fields of a session's record that stopping makes final.
FinalFields(record) ==
  <<record.endTime, record.duration, record.coinsEarned, record.tokensEarned>>

\* C16: an update or stop request that finds its session stopped (endTime
\* set) changes none of the record's endTime, duration, coinsEarned and
\* tokensEarned and does not change the owner's virtualBalance.
C16_StoppedIsFinal ==
  [][/\ \A i \in 1..Len(updates) :
          updates[i].endTime # NULL =>
            /\ UpdateWriteRecord(i) =>
                 FinalFields(records'[updates[i].sessionId])
                   = FinalFields(records[updates[i].sessionId])
            /\ UpdateWriteUser(i) =>
                 users'[updates[i].userId].virtualBalance
                   = users[updates[i].userId].virtualBalance
     /\ \A j \in 1..Len(stops) :
          (stops[j].readEndTime # NULL /\ StopWrite(j)) =>
            FinalFields(records'[stops[j].sessionId])
              = FinalFields(records[stops[j].sessionId])]_vars

\* C17: there is at most one TokenPool row, whatever the interleaving of the
\* runs of updateTokenPoolStats.
C17_SingleTokenPool ==
  Len(tokenPools) <= 1

\* A submission that fails validation, as the claim lists the cases; names
\* of algorithms and difficulties are compared without regard to case.
FailsValidation(req) ==
  \/ req.userId = "" \/ req.difficulty = "" \/ req.algorithm = ""
  \/ UNDEFINED \in {req.duration, req.hashRate, req.score}
  \/ req.duration <= 0
  \/ req.hashRate <= 0
  \/ req.score < 0
  \/ ToLowerCase(req.algorithm) \notin {"sha256", "scrypt", "x11"}
  \/ ToLowerCase(req.difficulty) \notin {"easy", "medium", "hard"}

\* C18: a benchmark submission that fails validation creates no
\* BenchmarkResult row, changes no user row (virtualBalance, lastActive) and
\* leaves nothing behind that would change one later.
C18_RejectedBeforeStateChange ==
  [][\A req \in Submissions :
       (SubmitCreate(req) /\ FailsValidation(req))
       => UNCHANGED <<benchmarks, users, submits, ledger>>]_vars

\* Three operations were issued: the clock moved once (now = 1000) and two
\* submissions arrived. One was accepted and credited with the date of its
\* creation; the other left no row and no handler behind, so it was rejected.
C18_Witness ==
  /\ issued = 3 /\ now = 1000 /\ submits = <<>>
  /\ Len(benchmarks) = 1
  /\ users[benchmarks[1].userId].virtualBalance = benchmarks[1].tokensEarned
  /\ users[benchmarks[1].userId].lastActive > 0

\* The multiplier of the claim, in halves: 1.0, 1.5 and 2.0 for easy, medium
\* and hard in any case of the letters, 1.0 for anything else.
ClaimedMultiplier(d) ==
  IF d \in {"hard", "HARD"} THEN 4
  ELSE IF d \in {"medium", "Medium"} THEN 3
  ELSE 2

\* C19: benchmarkReward(s, t, d) is max(s * baseRate * multiplier(d) / 1000,
\* 0.1) whatever the duration t, hence at least 0.1; score 800, hard and
\* baseRate 0.5 give 0.8.
C19_BenchmarkRewardFormula ==
  calc.fn = "calculateBenchmarkReward" =>
    /\ calc.result * 2 =
         Max(calc.score * env.BENCHMARK_REWARD_RATE * ClaimedMultiplier(calc.difficulty), 200000)
    /\ calc.result >= 100000
    /\ (calc.score = 800 /\ calc.difficulty = "hard" /\ env.BENCHMARK_REWARD_RATE = 500)
         => calc.result = 800000

\* The example of the claim was evaluated: score 800, hard, baseRate 0.5, and
\* the answer is above the minimum.
C19_Witness ==
  /\ calc.fn = "calculateBenchmarkReward"
  /\ calc.score = 800 /\ calc.difficulty = "hard" /\ env.BENCHMARK_REWARD_RATE = 500
  /\ calc.duration = 3600
  /\ calc.result = 800000

\* max(h * t / 1000000, 0.001) coins, in micro-coins.
ClaimedMiningReward(h, t) == IF h * t > 1000 THEN h * t ELSE 1000

\* coins * miningRewardRate for amounts of whole milli-coins, as all amounts
\* of this specification are (the rate is in thousandths).
ClaimedTokens(coins) == (coins \div 1000) * env.MINING_REWARD_RATE

\* C20 (values): miningReward(h, t) is max(h * t / 1000000, 0.001) for h > 0
\* and t > 0, hence at least 0.001.
C20_Values ==
  (calc.fn = "calculateMiningReward" /\ calc.hashRate > 0 /\ calc.duration > 0) =>
    /\ calc.result = ClaimedMiningReward(calc.hashRate, calc.duration)
    /\ calc.result >= 1000

\* C20 (record): the record write of an update stores that reward as
\* coinsEarned and coinsEarned * miningRewardRate as tokensEarned.
C20_Record ==
  \A i \in 1..Len(updates) :
    (/\ UpdateWriteRecord(i)
     /\ updates[i].hashRate > 0 /\ updates[i].duration > 0) =>
      LET written == records'[updates[i].sessionId]
      IN  /\ written.coinsEarned =
               ClaimedMiningReward(updates[i].hashRate, updates[i].duration)
          /\ written.coinsEarned % 1000 = 0
          /\ written.tokensEarned = ClaimedTokens(written.coinsEarned)

\* C20 (credit): the user write of an update that found nothing recorded
\* for its session adds coins * miningRewardRate to virtualBalance, the coins
\* being the mining reward of the reported hash rate and duration.
C20_Credit ==
  \A i \in 1..Len(updates) :
    (/\ UpdateWriteUser(i)
     /\ updates[i].hashRate > 0 /\ updates[i].duration > 0
     /\ updates[i].newTokensEarned = updates[i].tokensEarned) =>
      users'[updates[i].userId].virtualBalance - users[updates[i].userId].virtualBalance
        = ClaimedTokens(ClaimedMiningReward(updates[i].hashRate, updates[i].duration))

\* C20: the mining reward is max(h * t / 1000000, 0.001), and the update
\* route records and credits coins * miningRewardRate tokens.
C20_MiningRewardFormula ==
  [][C20_Values' /\ C20_Record /\ C20_Credit]_vars

\* At rate 2.0 a first update of 50 H/s for 10 s was recorded and credited at
\* the minimum, 0.001 coins and 0.002 tokens, and the function was evaluated
\* above the minimum.
C20_Witness ==
  /\ env.MINING_REWARD_RATE = 2000
  /\ calc.fn = "calculateMiningReward" /\ calc.result = 5000000
  /\ updates = <<>>
  /\ \E s \in 1..Len(records) :
       /\ records[s].hashRate = 50 /\ records[s].duration = 10
       /\ records[s].coinsEarned = 1000 /\ records[s].tokensEarned = 2000
       /\ hist[s].n = 1
       /\ users[records[s].userId].virtualBalance = 2000

\* C21: a sweep run selects at most 100 sessions, each with endTime set and
\* tokensEarned 0 when it is selected and none that the sweep has settled
\* before; the record write of the sweep stores a tokensEarned of at least
\* 0.001.
C21_SweepSelection ==
  [][/\ Len(sweeps') > Len(sweeps) =>
          LET pending == sweeps'[Len(sweeps')].pending
          IN  /\ Len(pending) <= 100
              /\ \A n \in 1..Len(pending) :
                   /\ records[pending[n].id].endTime # NULL
                   /\ records[pending[n].id].tokensEarned = 0
                   /\ hist[pending[n].id].swept = 0
     /\ \A k \in 1..Len(sweeps) :
          SweepWriteRecord(k) => records'[Head(sweeps[k].pending).id].tokensEarned >= 1000]_vars

\* Of 101 stopped sessions the first run settled 100 and the second run the
\* one that was left; a third run found nothing.
C21_Witness ==
  /\ Len(records) = 101 /\ issued = 3 /\ sweeps = <<>>
  /\ \A s \in 1..Len(records) : records[s].tokensEarned > 0 /\ hist[s].swept = 1
  /\ users["u1"].virtualBalance = 50 * 5000000 + 51 * 1000

\* C22: the sweep writes tokensEarned only over the 0 it selected the record
\* with, never over a value an update wrote, and no session is credited to
\* its owner both by the update route and by the sweep.
C22_SinglePath ==
  [][/\ \A k \in 1..Len(sweeps) :
          SweepWriteRecord(k) => records[Head(sweeps[k].pending).id].tokensEarned = 0
     /\ \A s \in 1..Len(records) :
          ~(hist'[s].tokens > 0 /\ hist'[s].swept > 0)]_vars

\* What the update route computes for a hash rate and a duration: the coins
\* and the tokens (lines 47-49).
RouteCoins(record) == calculateMiningReward(record.hashRate, DurationOrZero(record.duration))
RouteTokens(record) == MiningTokens(RouteCoins(record), env.MINING_REWARD_RATE)

\* C23: for the hash rate and duration of the record it settles, the sweep
\* stores and credits the token amount the update route computes (coins *
\* miningRewardRate), adds the coins to the owner's totalMined and sets
\* lastActive to the current time.
C23_SweepSettlesAsUpdate ==
  [][\A k \in 1..Len(sweeps) :
       LET record == Head(sweeps[k].pending)
       IN  /\ SweepWriteRecord(k) => records'[record.id].tokensEarned = RouteTokens(record)
           /\ SweepWriteUser(k) =>
                /\ users'[record.userId].virtualBalance
                     = users[record.userId].virtualBalance + RouteTokens(record)
                /\ users'[record.userId].totalMined
                     = users[record.userId].totalMined + RouteCoins(record)
                /\ users'[record.userId].lastActive = now]_vars

\* C24: after sequential updates of a session with any hash rates and
\* durations, the tokens the update route has added to the owner's
\* virtualBalance for the session do not exceed the largest cumulative token
\* reward one of the updates computed.
C24_CreditWithinLargestReward ==
  updates = <<>> =>
    \A s \in 1..Len(records) : hist[s].tokens <= hist[s].maxTokens

\* No request, sweep run or settlement is in flight.
Quiescent ==
  /\ starts = <<>> /\ updates = <<>> /\ stops = <<>> /\ sweeps = <<>>
  /\ submits = <<>> /\ withdraws = <<>> /\ pws = <<>>

\* The sum of tokensEarned over the first n rows of a user (mining records or
\* benchmark results).
RECURSIVE SumTokensEarned(_, _, _)
SumTokensEarned(rows, n, userId) ==
  IF n = 0 THEN 0
  ELSE SumTokensEarned(rows, n - 1, userId)
       + (IF rows[n].userId = userId THEN rows[n].tokensEarned ELSE 0)

\* The sum of the amounts of the COMPLETED withdrawals among the first n
\* transactions of a user.
RECURSIVE SumCompleted(_, _)
SumCompleted(n, userId) ==
  IF n = 0 THEN 0
  ELSE SumCompleted(n - 1, userId)
       + (IF /\ txs[n].userId = userId /\ txs[n].type = "WITHDRAWAL"
             /\ txs[n].status = "COMPLETED"
          THEN txs[n].amount ELSE 0)

\* C25: in every quiescent state each user's virtualBalance is the sum of
\* tokensEarned over the user's mining records plus the sum of tokensEarned
\* over the user's benchmark results minus the sum of the amounts of the
\* user's COMPLETED withdrawals.
C25_LedgerConservation ==
  Quiescent =>
    \A u \in Users :
      users[u].virtualBalance =
        SumTokensEarned(records, Len(records), u)
          + SumTokensEarned(benchmarks, Len(benchmarks), u)
          - SumCompleted(Len(txs), u)

====
